---- MODULE Spec2Model ----
(***************************************************************************)
(* Model of gym_eflex_agent/envs/EFlexMultiAgentCooperationV4.py: the      *)
(* time-series generators (TOUGenerator, LoadProfile), the device state    *)
(* machines (EFlexAgent with its constant and linear power curves,         *)
(* EFlexEnergyStorageAgent, EFLEXEnergyGeneratorAgent,                     *)
(* EFLEXEnergyMainGridAgent) and the coordinator                           *)
(* EFlexMultiAgentCooperationClsV4 (configure, step, reset).               *)
(*                                                                         *)
(* Python floats are modelled in fixed point: a reward or an observation   *)
(* entry x is the integer x * Unit.  Powers, prices and budgets are the    *)
(* integers of the configuration.  The configurations below are chosen so  *)
(* that every quotient the code forms is exact in this representation.     *)
(***************************************************************************)
EXTENDS Integers, Sequences, FiniteSets, TLC

\* ------------------------------------------------------------------ bounds
\* Free ticks explored in the single-device scenario.
MaxTicksSolo == 6
\* Free ticks explored in the storage and generator scenario.
MaxTicks == 4
\* Free ticks explored in the two-device scenarios with a production device.
MaxTicksPair == 2
\* Free ticks explored in the three-device scenario.
MaxTicksTrio == 1
\* Length of the scripted prefix of the two-device production scenario: Reset,
\* Start (the production device is in Execute).
PairWarmTicks == 2
\* Length of the scripted prefix of the production-cap scenario: Reset, then
\* 19 cycles Start, SC, SC, then Start (19 completed productions, in Execute).
WarmTicks == 59
\* Calls of step with an out-of-range action explored in one behaviour.
MaxErrors == 1
MaxSeeds == 1

\* ------------------------------------------------------- program constants
MAX_PRODUCTION_STEP == 20

\* The float 1.0 in fixed point.
Unit == 100000

\* ------------------------------------------------------------ enumerations
\* Enum members are modelled by their names; the *Value operators give the
\* integer of each member, the *Transition sequences the member of each
\* integer (index = value + 1).
EFLEXAgentState ==
    {"Aborted", "Stopped", "PowerOff", "LoadChange", "StandBy", "StartedUp",
     "Idle", "Execute", "Completed", "Held", "Suspended"}

EFLEXAgentStateValue(s) ==
    CASE s = "Aborted"    -> 1
      [] s = "Stopped"    -> 0
      [] s = "PowerOff"   -> 2
      [] s = "LoadChange" -> 3
      [] s = "StandBy"    -> 4
      [] s = "StartedUp"  -> 5
      [] s = "Idle"       -> 6
      [] s = "Execute"    -> 7
      [] s = "Completed"  -> 8
      [] s = "Held"       -> 9
      [] s = "Suspended"  -> 10

EFLEXAgentTransition ==
    <<"SC", "Abort", "Clear", "Reset", "Stop", "ChangeLoad", "Hold", "PowerOn",
      "PowerOff", "Standby", "Start", "Suspend", "UnHold", "Unsuspend">>

EFLEXEnergyStorageAgentState == {"Aborted", "Stopped", "Charging", "Discharging"}

EFLEXEnergyStorageAgentStateValue(s) ==
    CASE s = "Aborted"     -> 1
      [] s = "Stopped"     -> 0
      [] s = "Charging"    -> 2
      [] s = "Discharging" -> 3

EFLEXEnergyStorageAgentTransition ==
    <<"SC", "Abort", "Clear", "Charge", "Stop", "Discharge">>

EFLEXEnergyGeneratorAgentState == {"Aborted", "Stopped", "Generating"}

EFLEXEnergyGeneratorAgentStateValue(s) ==
    CASE s = "Aborted"    -> 1
      [] s = "Stopped"    -> 0
      [] s = "Generating" -> 2

EFLEXEnergyGeneratorAgentTransition ==
    <<"SC", "Abort", "Clear", "Generate", "Stop">>

EFLEXEnergyMainGridAgentState == {"Aborted", "Stopped", "Buying", "Selling"}

EFLEXEnergyMainGridAgentStateValue(s) ==
    CASE s = "Aborted" -> 0
      [] s = "Stopped" -> 1
      [] s = "Buying"  -> 2
      [] s = "Selling" -> 4

EFLEXEnergyMainGridAgentTransition ==
    <<"SC", "Abort", "Clear", "Stop", "Buy", "Sell">>

\* ------------------------------------------------------------ device kinds
\* The class of a device is its "type" field (agent_conf['type']).
ProductionTypes == {"EFlexAgentPConstant", "EFlexAgentPLinear"}

\* hasattr(agent, 'production_count'): only EFlexAgent and its subclasses
\* set the attribute.
HasProductionCount(self) == self.type \in ProductionTypes

\* The state enumeration and the transition enumeration of a device class.
StateEnum(type) ==
    CASE type \in ProductionTypes            -> EFLEXAgentState
      [] type = "EFlexEnergyStorageAgent"    -> EFLEXEnergyStorageAgentState
      [] type = "EFLEXEnergyGeneratorAgent"  -> EFLEXEnergyGeneratorAgentState
      [] type = "EFLEXEnergyMainGridAgent"   -> EFLEXEnergyMainGridAgentState

StateValue(type, s) ==
    CASE type \in ProductionTypes            -> EFLEXAgentStateValue(s)
      [] type = "EFlexEnergyStorageAgent"    -> EFLEXEnergyStorageAgentStateValue(s)
      [] type = "EFLEXEnergyGeneratorAgent"  -> EFLEXEnergyGeneratorAgentStateValue(s)
      [] type = "EFLEXEnergyMainGridAgent"   -> EFLEXEnergyMainGridAgentStateValue(s)

TransitionEnum(type) ==
    CASE type \in ProductionTypes            -> EFLEXAgentTransition
      [] type = "EFlexEnergyStorageAgent"    -> EFLEXEnergyStorageAgentTransition
      [] type = "EFLEXEnergyGeneratorAgent"  -> EFLEXEnergyGeneratorAgentTransition
      [] type = "EFLEXEnergyMainGridAgent"   -> EFLEXEnergyMainGridAgentTransition

\* spaces.Discrete(len(Transition)): the in-range action indices {0..n-1}.
ActionSpace(type) == 0 .. (Len(TransitionEnum(type)) - 1)

\* Transition(action): the enum member of an in-range integer.
ActEnum(type, action) == TransitionEnum(type)[action + 1]

\* ----------------------------------------------------------------- helpers
RECURSIVE SumSeq(_)
SumSeq(s) == IF s = <<>> THEN 0 ELSE Head(s) + SumSeq(Tail(s))

Abs(x) == IF x < 0 THEN -x ELSE x

\* self.current_state = st; self.current_reward = rew
Goto(self, st, rew) == [self EXCEPT !.current_state = st, !.current_reward = rew]

\* self.startStep = self.currentStep
MarkStart(self) == [self EXCEPT !.startStep = self.currentStep]

\* ------------------------------------------------- EFlexAgent (production)
\* EFlexAgent._take_action: the branch of state Aborted
EFlexAgent_Aborted(self, action) ==
    LET s == MarkStart(self) IN
    IF action = "Clear" THEN Goto(s, "Stopped", Unit)
    ELSE Goto(s, "Aborted", 0)

\* EFlexAgent._take_action: the branch of state Stopped
EFlexAgent_Stopped(self, action) ==
    LET s == MarkStart(self) IN
    IF action = "Abort" THEN Goto(s, "Aborted", -(Unit \div 10))
    ELSE IF action = "Reset" THEN Goto(s, "Idle", Unit \div 10)
    ELSE Goto(s, "Stopped", 0)

\* The branch of state Idle with ChangeLoad entering LoadChange.
EFlexAgent_Idle_LoadChange(self, action) ==
    IF action = "Abort" THEN Goto(self, "Aborted", -(Unit \div 10))
    ELSE IF action = "Start" THEN Goto(MarkStart(self), "Execute", Unit)
    ELSE IF action = "PowerOff" THEN Goto(self, "PowerOff", 0)
    ELSE IF action = "Standby" THEN Goto(self, "StandBy", 0)
    ELSE IF action = "Stop" THEN Goto(self, "Stopped", 0)
    ELSE IF action = "ChangeLoad" THEN Goto(self, "LoadChange", Unit \div 10)
    ELSE Goto(self, "Idle", 0)

\* EFlexAgent._take_action: the branch of state Idle
EFlexAgent_Idle(self, action) ==
    IF action = "Abort" THEN Goto(self, "Aborted", -(Unit \div 10))
    ELSE IF action = "Start" THEN Goto(MarkStart(self), "Execute", Unit)
    ELSE IF action = "PowerOff" THEN Goto(self, "PowerOff", 0)
    ELSE IF action = "Standby" THEN Goto(self, "StandBy", 0)
    ELSE IF action = "Stop" THEN Goto(self, "Stopped", 0)
    ELSE IF action = "ChangeLoad" THEN Goto(self, "Idle", Unit \div 10)
    ELSE Goto(self, "Idle", 0)

\* EFlexAgent._take_action: the branch of state PowerOff
EFlexAgent_PowerOff(self, action) ==
    LET s == MarkStart(self) IN
    IF action = "Abort" THEN Goto(s, "Aborted", -(Unit \div 10))
    ELSE IF action = "PowerOn" THEN Goto(s, "StartedUp", 0)
    ELSE IF action = "Stop" THEN Goto(s, "Stopped", 0)
    ELSE Goto(s, "PowerOff", 0)

\* EFlexAgent._take_action: the branch of state StandBy
EFlexAgent_StandBy(self, action) ==
    LET s == MarkStart(self) IN
    IF action = "Abort" THEN Goto(s, "Aborted", -(Unit \div 10))
    ELSE IF action = "PowerOn" THEN Goto(s, "StartedUp", Unit \div 10)
    ELSE IF action = "Stop" THEN Goto(s, "Stopped", 0)
    ELSE Goto(s, "StandBy", 0)

\* EFlexAgent._take_action: the branch of state StartedUp
EFlexAgent_StartedUp(self, action) ==
    IF action = "Abort" THEN Goto(self, "Aborted", -(Unit \div 10))
    ELSE IF action = "Reset" THEN Goto(self, "Idle", (3 * Unit) \div 10)
    ELSE IF action = "Stop" THEN Goto(self, "Stopped", 0)
    ELSE Goto(self, "StartedUp", 0)

\* The Execute branch without its Abort case: Abort falls to the self-loop.
EFlexAgent_Execute_NoAbort(self, action) ==
    IF action = "SC" THEN
        [Goto(self, "Completed", Unit)
            EXCEPT !.production_count = self.production_count + 1]
    ELSE IF action = "Hold" THEN Goto(self, "Held", 0)
    ELSE IF action = "Suspend" THEN Goto(self, "Suspended", 0)
    ELSE IF action = "Stop" THEN Goto(self, "Stopped", 0)
    ELSE Goto(self, "Execute", 0)

\* EFlexAgent._take_action: the branch of state Execute
EFlexAgent_Execute(self, action) ==
    IF action = "Abort" THEN Goto(self, "Aborted", -(Unit \div 10))
    ELSE IF action = "SC" THEN
        [Goto(self, "Completed", Unit)
            EXCEPT !.production_count = self.production_count + 1]
    ELSE IF action = "Hold" THEN Goto(self, "Held", 0)
    ELSE IF action = "Suspend" THEN Goto(self, "Suspended", 0)
    ELSE IF action = "Stop" THEN Goto(self, "Stopped", 0)
    ELSE IF action = "ChangeLoad" THEN Goto(self, "Execute", 0)
    ELSE Goto(self, "Execute", 0)

\* EFlexAgent._take_action: the branch of state Completed
EFlexAgent_Completed(self, action) ==
    IF action = "Abort" THEN Goto(self, "Aborted", -(Unit \div 10))
    ELSE IF action = "SC" THEN Goto(self, "Idle", Unit)
    ELSE IF action = "Stop" THEN Goto(self, "Stopped", 0)
    ELSE Goto(self, "Completed", 0)

\* EFlexAgent._take_action: the branch of state Held
EFlexAgent_Held(self, action) ==
    IF action = "Abort" THEN Goto(self, "Aborted", -(Unit \div 10))
    ELSE IF action = "UnHold" THEN Goto(self, "Execute", Unit \div 10)
    ELSE IF action = "Suspend" THEN Goto(self, "Suspended", 0)
    ELSE IF action = "Stop" THEN Goto(self, "Stopped", 0)
    ELSE IF action = "ChangeLoad" THEN Goto(self, "Held", 0)
    ELSE Goto(self, "Held", 0)

\* EFlexAgent._take_action: the branch of state Suspended
EFlexAgent_Suspended(self, action) ==
    IF action = "Abort" THEN Goto(self, "Aborted", -(Unit \div 10))
    ELSE IF action = "Unsuspend" THEN Goto(self, "Execute", Unit \div 10)
    ELSE IF action = "Hold" THEN Goto(self, "Held", 0)
    ELSE IF action = "Stop" THEN Goto(self, "Stopped", 0)
    ELSE IF action = "ChangeLoad" THEN Goto(self, "Suspended", 0)
    ELSE Goto(self, "Suspended", 0)

\* EFlexAgent._take_action: one branch per current state, in the order of
\* the code.  LoadChange has no branch: the device is left untouched.
EFlexAgent_take_action(self, action) ==
    CASE self.current_state = "Aborted" -> EFlexAgent_Aborted(self, action)
      [] self.current_state = "Stopped" -> EFlexAgent_Stopped(self, action)
      [] self.current_state = "Idle" -> EFlexAgent_Idle(self, action)
      [] self.current_state = "PowerOff" -> EFlexAgent_PowerOff(self, action)
      [] self.current_state = "StandBy" -> EFlexAgent_StandBy(self, action)
      [] self.current_state = "StartedUp" -> EFlexAgent_StartedUp(self, action)
      [] self.current_state = "Execute" -> EFlexAgent_Execute(self, action)
      [] self.current_state = "Completed" -> EFlexAgent_Completed(self, action)
      [] self.current_state = "Held" -> EFlexAgent_Held(self, action)
      [] self.current_state = "Suspended" -> EFlexAgent_Suspended(self, action)
      [] OTHER -> self

\* EFlexAgent._get_done without the production cap (the done test of the
\* other device classes).
EFlexAgent_get_done_NoCap(self) == self.current_state = "Aborted"

\* EFlexAgent._get_done with the cap compared strictly.
EFlexAgent_get_done_Above(self) ==
    self.current_state = "Aborted" \/ self.production_count > MAX_PRODUCTION_STEP

\* EFlexAgent._get_done
EFlexAgent_get_done(self) ==
    self.current_state = "Aborted" \/ self.production_count >= MAX_PRODUCTION_STEP

\* EFlexAgentPConstant.current_power
EFlexAgentPConstant_current_power(self) ==
    IF self.current_state = "Aborted" \/ self.current_state = "Stopped" THEN 0
    ELSE IF self.current_state = "Execute" \/ self.current_state = "Completed"
         THEN self.p_max
    ELSE self.p_min

\* The linear ramp without its clamp at p_max.
EFlexAgentPLinear_current_power_NoClamp(self) ==
    IF self.current_state = "Aborted" \/ self.current_state = "Stopped" THEN 0
    ELSE IF self.current_state = "Execute" \/ self.current_state = "Completed"
         THEN self.p_min + (self.currentStep - self.startStep) * self.p_slope
    ELSE self.p_min

\* EFlexAgentPLinear.current_power
EFlexAgentPLinear_current_power(self) ==
    IF self.current_state = "Aborted" \/ self.current_state = "Stopped" THEN 0
    ELSE IF self.current_state = "Execute" \/ self.current_state = "Completed"
         THEN LET delta   == self.currentStep - self.startStep
                  c_power == self.p_min + delta * self.p_slope
              IN IF c_power > self.p_max THEN self.p_max ELSE c_power
    ELSE self.p_min

\* ------------------------------------------------- EFlexEnergyStorageAgent
\* 0.5 * (1 - ((p_max - charging_level) ** 2 / (p_max ** 2)))
StorageEfficiency(self) ==
    (Unit * (self.p_max * self.p_max
             - (self.p_max - self.charging_level) * (self.p_max - self.charging_level)))
        \div (2 * self.p_max * self.p_max)

\* The Aborted branch with the self-loop leaving current_reward unassigned.
EFlexEnergyStorageAgent_Aborted_StaleReward(self, action) ==
    LET s == MarkStart(self) IN
    IF action = "Clear" THEN Goto(s, "Stopped", Unit)
    ELSE s

\* EFlexEnergyStorageAgent._take_action: the branch of state Aborted
EFlexEnergyStorageAgent_Aborted(self, action) ==
    LET s == MarkStart(self) IN
    IF action = "Clear" THEN Goto(s, "Stopped", Unit)
    ELSE Goto(s, "Aborted", 0)

\* The Stopped branch charging or discharging already on the switching tick.
EFlexEnergyStorageAgent_Stopped_ChargeNow(self, action) ==
    LET s == MarkStart(self) IN
    IF action = "Abort" THEN Goto(s, "Aborted", -(Unit \div 10))
    ELSE IF action = "Charge"
         THEN [Goto(s, "Charging", Unit \div 10)
                  EXCEPT !.charging_level =
                      IF self.charging_level + self.p_slope > self.p_max
                      THEN self.p_max ELSE self.charging_level + self.p_slope]
    ELSE IF action = "Discharge"
         THEN [Goto(s, "Discharging", Unit \div 10)
                  EXCEPT !.charging_level =
                      IF self.charging_level - self.p_slope < self.p_min
                      THEN self.p_min ELSE self.charging_level - self.p_slope]
    ELSE Goto(s, "Stopped", 0)

\* The Stopped branch rewarding the switch with a reward other than 0.1.
EFlexEnergyStorageAgent_Stopped_OtherReward(self, action) ==
    LET s == MarkStart(self) IN
    IF action = "Abort" THEN Goto(s, "Aborted", -(Unit \div 10))
    ELSE IF action = "Charge" THEN Goto(s, "Charging", StorageEfficiency(self))
    ELSE IF action = "Discharge" THEN Goto(s, "Discharging", StorageEfficiency(self))
    ELSE Goto(s, "Stopped", 0)

\* EFlexEnergyStorageAgent._take_action: the branch of state Stopped
EFlexEnergyStorageAgent_Stopped(self, action) ==
    LET s == MarkStart(self) IN
    IF action = "Abort" THEN Goto(s, "Aborted", -(Unit \div 10))
    ELSE IF action = "Charge" THEN Goto(s, "Charging", Unit \div 10)
    ELSE IF action = "Discharge" THEN Goto(s, "Discharging", Unit \div 10)
    ELSE Goto(s, "Stopped", 0)

\* The Charging branch with charging_level advanced before the reward is
\* computed.
EFlexEnergyStorageAgent_Charging_PostLevel(self, action) ==
    LET level   == self.charging_level + self.p_slope
        clamped == IF level > self.p_max THEN self.p_max ELSE level
        charged == [self EXCEPT !.charging_level = clamped]
    IN IF action = "Abort" THEN Goto(charged, "Aborted", -(Unit \div 10))
       ELSE IF action = "Stop" THEN Goto(charged, "Stopped", 0)
       ELSE IF action = "Discharge"
            THEN Goto(charged, "Discharging", StorageEfficiency(charged))
       ELSE Goto(charged, "Charging", StorageEfficiency(charged))

\* EFlexEnergyStorageAgent._take_action: the branch of state Charging
EFlexEnergyStorageAgent_Charging(self, action) ==
    LET s == IF action = "Abort" THEN Goto(self, "Aborted", -(Unit \div 10))
             ELSE IF action = "Stop" THEN Goto(self, "Stopped", 0)
             ELSE IF action = "Discharge"
                  THEN Goto(self, "Discharging", StorageEfficiency(self))
             ELSE Goto(self, "Charging", StorageEfficiency(self))
        level == self.charging_level + self.p_slope
    IN [s EXCEPT !.charging_level =
                  IF level > self.p_max THEN self.p_max ELSE level]

\* The branch of state Discharging without its lower clamp.
EFlexEnergyStorageAgent_Discharging_NoClamp(self, action) ==
    LET s == IF action = "Abort" THEN Goto(self, "Aborted", -(Unit \div 10))
             ELSE IF action = "Stop" THEN Goto(self, "Stopped", 0)
             ELSE IF action = "Charge"
                  THEN Goto(self, "Charging", StorageEfficiency(self))
             ELSE Goto(self, "Discharging", StorageEfficiency(self))
    IN [s EXCEPT !.charging_level = self.charging_level - self.p_slope]

\* EFlexEnergyStorageAgent._take_action: the branch of state Discharging
EFlexEnergyStorageAgent_Discharging(self, action) ==
    LET s == IF action = "Abort" THEN Goto(self, "Aborted", -(Unit \div 10))
             ELSE IF action = "Stop" THEN Goto(self, "Stopped", 0)
             ELSE IF action = "Charge"
                  THEN Goto(self, "Charging", StorageEfficiency(self))
             ELSE Goto(self, "Discharging", StorageEfficiency(self))
        level == self.charging_level - self.p_slope
    IN [s EXCEPT !.charging_level =
                  IF level < self.p_min THEN self.p_min ELSE level]

\* EFlexEnergyStorageAgent._take_action
EFlexEnergyStorageAgent_take_action(self, action) ==
    CASE self.current_state = "Aborted" -> EFlexEnergyStorageAgent_Aborted(self, action)
      [] self.current_state = "Stopped" -> EFlexEnergyStorageAgent_Stopped(self, action)
      [] self.current_state = "Charging" -> EFlexEnergyStorageAgent_Charging(self, action)
      [] self.current_state = "Discharging" -> EFlexEnergyStorageAgent_Discharging(self, action)
      [] OTHER -> self

\* EFlexEnergyStorageAgent.current_power
EFlexEnergyStorageAgent_current_power(self) ==
    IF self.current_state = "Aborted" \/ self.current_state = "Stopped" THEN 0
    ELSE IF self.current_state = "Charging"
         THEN IF self.charging_level < self.p_max
              THEN (self.p_max - self.p_min) \div 2 ELSE 0
    ELSE IF self.current_state = "Discharging"
         THEN IF self.charging_level > self.p_min
              THEN -((self.p_max - self.p_min) \div 2) ELSE 0
    ELSE 0

\* ----------------------------------------------- EFLEXEnergyGeneratorAgent
\* The generator ramp without its clamp at p_max.
EFLEXEnergyGeneratorAgent_current_power_NoClamp(self) ==
    IF self.current_state = "Aborted" \/ self.current_state = "Stopped" THEN 0
    ELSE IF self.current_state = "Generating"
         THEN -(self.last_power + self.p_slope)
    ELSE 0

\* EFLEXEnergyGeneratorAgent.current_power
EFLEXEnergyGeneratorAgent_current_power(self) ==
    IF self.current_state = "Aborted" \/ self.current_state = "Stopped" THEN 0
    ELSE IF self.current_state = "Generating"
         THEN LET c_power == self.last_power + self.p_slope
              IN IF c_power > self.p_max THEN -self.p_max ELSE -c_power
    ELSE 0

\* EFLEXEnergyGeneratorAgent._take_action: the branch of state Aborted
EFLEXEnergyGeneratorAgent_Aborted(self, action) ==
    LET s == MarkStart(self) IN
    IF action = "Clear" THEN Goto(s, "Stopped", Unit)
    ELSE Goto(s, "Aborted", 0)

\* EFLEXEnergyGeneratorAgent._take_action: the branch of state Stopped
EFLEXEnergyGeneratorAgent_Stopped(self, action) ==
    LET s == MarkStart(self) IN
    IF action = "Abort" THEN Goto(s, "Aborted", -(Unit \div 10))
    ELSE IF action = "Generate" THEN Goto(s, "Generating", Unit \div 10)
    ELSE Goto(s, "Stopped", 0)

\* The Generating branch rewarding the base last_power instead of the power
\* of this tick.
EFLEXEnergyGeneratorAgent_Generating_BaseReward(self, action) ==
    IF action = "Abort" THEN Goto(self, "Aborted", -(Unit \div 10))
    ELSE IF action = "Stop" THEN Goto(self, "Stopped", 0)
    ELSE Goto(self, "Generating",
              (Unit * Abs(self.last_power)) \div (5 * self.p_max))

\* EFLEXEnergyGeneratorAgent._take_action: the branch of state Generating
EFLEXEnergyGeneratorAgent_Generating(self, action) ==
    IF action = "Abort" THEN Goto(self, "Aborted", -(Unit \div 10))
    ELSE IF action = "Stop" THEN Goto(self, "Stopped", 0)
    ELSE Goto(self, "Generating",
              (Unit * Abs(EFLEXEnergyGeneratorAgent_current_power(self)))
                  \div (5 * self.p_max))

\* EFLEXEnergyGeneratorAgent._take_action
EFLEXEnergyGeneratorAgent_take_action(self, action) ==
    CASE self.current_state = "Aborted" -> EFLEXEnergyGeneratorAgent_Aborted(self, action)
      [] self.current_state = "Stopped" -> EFLEXEnergyGeneratorAgent_Stopped(self, action)
      [] self.current_state = "Generating" -> EFLEXEnergyGeneratorAgent_Generating(self, action)
      [] OTHER -> self

\* ------------------------------------------------ EFLEXEnergyMainGridAgent
\* The Aborted branch with the Clear recovery of the other classes.
EFLEXEnergyMainGridAgent_Aborted_Recover(self, action) ==
    LET s == MarkStart(self) IN
    IF action = "Clear" THEN Goto(s, "Stopped", Unit)
    ELSE Goto(s, "Aborted", 0)

\* EFLEXEnergyMainGridAgent._take_action: the branch of state Aborted.  Its
\* Clear branch is "pass": neither current_state nor current_reward is
\* assigned.
EFLEXEnergyMainGridAgent_Aborted(self, action) ==
    LET s == MarkStart(self) IN
    IF action = "Clear" THEN s
    ELSE Goto(s, "Aborted", 0)

\* EFLEXEnergyMainGridAgent._take_action: the branch of state Stopped
EFLEXEnergyMainGridAgent_Stopped(self, action) ==
    LET s == MarkStart(self) IN
    IF action = "Abort" THEN Goto(s, "Aborted", -(Unit \div 10))
    ELSE IF action = "Buy" THEN Goto(s, "Buying", Unit \div 100)
    ELSE IF action = "Sell" THEN Goto(s, "Selling", Unit \div 100)
    ELSE Goto(s, "Stopped", 0)

\* EFLEXEnergyMainGridAgent._take_action: the branch of state Buying
EFLEXEnergyMainGridAgent_Buying(self, action) ==
    IF action = "Abort" THEN Goto(self, "Aborted", -(Unit \div 10))
    ELSE IF action = "Stop" THEN Goto(self, "Stopped", -(Unit \div 100))
    ELSE IF action = "Sell" THEN Goto(self, "Selling", 0)
    ELSE Goto(self, "Buying", -(Unit \div 100))

\* EFLEXEnergyMainGridAgent._take_action: the branch of state Selling
EFLEXEnergyMainGridAgent_Selling(self, action) ==
    IF action = "Abort" THEN Goto(self, "Aborted", -(Unit \div 10))
    ELSE IF action = "Stop" THEN Goto(self, "Stopped", -(Unit \div 100))
    ELSE IF action = "Buy" THEN Goto(self, "Buying", 0)
    ELSE Goto(self, "Selling", Unit \div 100)

\* EFLEXEnergyMainGridAgent._take_action
EFLEXEnergyMainGridAgent_take_action(self, action) ==
    CASE self.current_state = "Aborted" -> EFLEXEnergyMainGridAgent_Aborted(self, action)
      [] self.current_state = "Stopped" -> EFLEXEnergyMainGridAgent_Stopped(self, action)
      [] self.current_state = "Buying" -> EFLEXEnergyMainGridAgent_Buying(self, action)
      [] self.current_state = "Selling" -> EFLEXEnergyMainGridAgent_Selling(self, action)
      [] OTHER -> self

\* EFLEXEnergyMainGridAgent.current_power
EFLEXEnergyMainGridAgent_current_power(self) ==
    IF self.current_state = "Aborted" \/ self.current_state = "Stopped" THEN 0
    ELSE IF self.current_state = "Buying" THEN -self.p_max
    ELSE IF self.current_state = "Selling" THEN self.p_max
    ELSE 0

\* Shared by the three non-production classes: _get_done
NonProduction_get_done(self) == self.current_state = "Aborted"

\* --------------------------------------------------- dispatch on the class
\* agent.current_power (a property of each class)
current_power(self) ==
    CASE self.type = "EFlexAgentPConstant"       -> EFlexAgentPConstant_current_power(self)
      [] self.type = "EFlexAgentPLinear"         -> EFlexAgentPLinear_current_power(self)
      [] self.type = "EFlexEnergyStorageAgent"   -> EFlexEnergyStorageAgent_current_power(self)
      [] self.type = "EFLEXEnergyGeneratorAgent" -> EFLEXEnergyGeneratorAgent_current_power(self)
      [] self.type = "EFLEXEnergyMainGridAgent"  -> EFLEXEnergyMainGridAgent_current_power(self)

_take_action(self, action) ==
    CASE self.type \in ProductionTypes           -> EFlexAgent_take_action(self, action)
      [] self.type = "EFlexEnergyStorageAgent"   -> EFlexEnergyStorageAgent_take_action(self, action)
      [] self.type = "EFLEXEnergyGeneratorAgent" -> EFLEXEnergyGeneratorAgent_take_action(self, action)
      [] self.type = "EFLEXEnergyMainGridAgent"  -> EFLEXEnergyMainGridAgent_take_action(self, action)

_get_done(self) ==
    IF self.type \in ProductionTypes THEN EFlexAgent_get_done(self)
    ELSE NonProduction_get_done(self)

_get_reward(self) == self.current_reward

\* observation_space.shape[0] = len(State enumeration) + 2
ObsLen(type) == Cardinality(StateEnum(type)) + 2

\* _get_obs: zeros, then obs[current_state.value] = 1.0, then
\* obs[shape[0] - 1] = current_power / max_allowed_power.  Index k of the
\* code is position k + 1 of the sequence.
_get_obs(self) ==
    LET n     == ObsLen(self.type)
        zeros == [k \in 1..n |-> 0]
        hot   == [zeros EXCEPT ![StateValue(self.type, self.current_state) + 1] = Unit]
    IN [hot EXCEPT ![n] = (current_power(self) * Unit) \div self.max_allowed_power]

\* The assignments a class's step makes after the tick counter is advanced:
\* the generator stores abs(current_power), the grid current_power, in
\* last_power; the other classes store nothing.
StoreLastPower(self) ==
    CASE self.type = "EFLEXEnergyGeneratorAgent" ->
           [self EXCEPT !.last_power = Abs(current_power(self))]
      [] self.type = "EFLEXEnergyMainGridAgent" ->
           [self EXCEPT !.last_power = current_power(self)]
      [] OTHER -> self

\* step(action) of a device, for an in-range action: the updated device and
\* the returned observation, reward and episode_over flag.
AgentStep(self, action) ==
    LET Returned(taken) ==
            [agent  |-> StoreLastPower(
                            [taken EXCEPT !.currentStep = taken.currentStep + 1]),
             ob     |-> _get_obs(taken),
             reward |-> _get_reward(taken),
             done   |-> _get_done(taken)]
    IN Returned(_take_action(self, ActEnum(self.type, action)))

\* reset() of a device with production_count left as it is, as the other
\* classes leave their accumulators.
AgentReset_KeepCount(self) ==
    [self EXCEPT !.current_state = "Stopped",
                 !.current_reward = 0,
                 !.currentStep = 0,
                 !.startStep = 0]

\* reset() of a device that forgets to assign current_state.
AgentReset_KeepState(self) ==
    LET base == [self EXCEPT !.current_reward = 0,
                             !.currentStep = 0,
                             !.startStep = 0]
    IN IF self.type \in ProductionTypes
       THEN [base EXCEPT !.production_count = 0]
       ELSE base

\* reset() of a device.  Only EFlexAgent.reset assigns an accumulator
\* (production_count); the storage, generator and grid resets leave
\* charging_level and last_power as they are.
AgentReset(self) ==
    LET base == [self EXCEPT !.current_state = "Stopped",
                             !.current_reward = 0,
                             !.currentStep = 0,
                             !.startStep = 0]
    IN IF self.type \in ProductionTypes
       THEN [base EXCEPT !.production_count = 0]
       ELSE base

\* __init__(agent_conf, name, max_allowed_power) of a device: the fields
\* after construction.  A class has only its own accumulator; the record
\* carries all three, the foreign ones fixed at 0 and never read.
AgentInit(agent_conf, max_power) ==
    [type              |-> agent_conf.type,
     p_min             |-> agent_conf.p_min,
     p_max             |-> agent_conf.p_max,
     p_slope           |-> agent_conf.p_slope,
     max_allowed_power |-> max_power,
     current_state     |-> "Stopped",
     current_reward    |-> 0,
     startStep         |-> 0,
     currentStep       |-> 0,
     production_count  |-> 0,
     charging_level    |-> 0,
     last_power        |-> 0]

\* ---------------------------------------------------- time-series generators
\* The loop taking a value already when the counter equals its breakpoint.
RECURSIVE ScanSteps_AtBreakpoint(_, _, _, _, _)
ScanSteps_AtBreakpoint(steps, values, current_step, i, value) ==
    IF i > Len(steps) THEN value
    ELSE IF current_step >= steps[i]
         THEN ScanSteps_AtBreakpoint(steps, values, current_step, i + 1, values[i])
         ELSE value

\* The for loop of TOUGenerator.step / LoadProfile.step from index i on:
\* while current_step > steps[i] take values[i] and continue, else break.
RECURSIVE ScanSteps(_, _, _, _, _)
ScanSteps(steps, values, current_step, i, value) ==
    IF i > Len(steps) THEN value
    ELSE IF current_step > steps[i]
         THEN ScanSteps(steps, values, current_step, i + 1, values[i])
         ELSE value

\* TOUGenerator.__init__
TOUGeneratorInit(tou_conf) ==
    [steps             |-> tou_conf.steps,
     values            |-> tou_conf.values,
     current_step      |-> 0,
     current_tou_value |-> tou_conf.values[1]]

\* TOUGenerator.step comparing the breakpoints with the counter before it is
\* advanced.
TOUGeneratorStep_LateCompare(self) ==
    [self EXCEPT !.current_step = self.current_step + 1,
                 !.current_tou_value =
                     ScanSteps(self.steps, self.values, self.current_step, 1,
                               self.current_tou_value)]

\* TOUGenerator.step: the generator after the call; the returned value is its
\* current_tou_value.
TOUGeneratorStep(self) ==
    LET step == self.current_step + 1
    IN [self EXCEPT !.current_step = step,
                    !.current_tou_value =
                        ScanSteps(self.steps, self.values, step, 1,
                                  self.current_tou_value)]

\* TOUGenerator.reset rewinding the clock (the lines commented out in the code).
TOUGeneratorReset_Rewind(self) ==
    [self EXCEPT !.current_step = 0, !.current_tou_value = self.values[1]]

\* TOUGenerator.reset: pass
TOUGeneratorReset(self) == self

\* values[i] * (1 + tolerance_factor), the tolerance in fixed point.
Tolerated(values, tolerance_factor) ==
    [i \in 1..Len(values) |-> values[i] * (Unit + tolerance_factor)]

\* LoadProfile.__init__
LoadProfileInit(load_conf) ==
    [steps            |-> load_conf.steps,
     values           |-> load_conf.values,
     tolerance_factor |-> load_conf.tolerance_factor,
     current_step     |-> 0,
     current_max_load |-> Tolerated(load_conf.values, load_conf.tolerance_factor)[1]]

\* LoadProfile.step
LoadProfileStep(self) ==
    LET step == self.current_step + 1
    IN [self EXCEPT !.current_step = step,
                    !.current_max_load =
                        ScanSteps(self.steps,
                                  Tolerated(self.values, self.tolerance_factor),
                                  step, 1, self.current_max_load)]

\* LoadProfile.reset: pass
LoadProfileReset(self) == self

\* ------------------------------------------------------------- coordinator
\* The bonus granted for being in Completed, whatever the state before.
ProductionReward_AnyCompleted(last_agent_state, agent) ==
    IF agent.current_state = "Completed" THEN Unit ELSE 0

\* _production_reward of one device in a tick: 1.0 iff the device is in
\* Completed after its step and was in Execute before it.
ProductionReward(last_agent_state, agent) ==
    IF agent.current_state = "Completed" /\ last_agent_state = "Execute"
    THEN Unit ELSE 0

\* 0.5 * _state_reward + 0.5 * _production_reward
BlendReward(state_reward, production_reward) ==
    state_reward \div 2 + production_reward \div 2

\* agent.production_count >= MAX_PRODUCTION_STEP: append i to current_winner
IsWinner(agent) == agent.production_count >= MAX_PRODUCTION_STEP

\* The loop body with current_power read before agent.step instead of after.
TickAgent_PowerBefore(agent, action) ==
    LET last_agent_state == agent.current_state
        Entry(r, bonus, blended) ==
            [agent        |-> IF HasProductionCount(agent)
                              THEN [r.agent EXCEPT !.current_reward = blended]
                              ELSE r.agent,
             ob           |-> r.ob,
             state_reward |-> r.reward,
             done         |-> r.done,
             power        |-> current_power(agent),
             produced     |-> IF HasProductionCount(agent) /\ bonus = Unit
                              THEN 1 ELSE 0,
             reward       |-> IF HasProductionCount(agent) THEN blended ELSE r.reward,
             winner       |-> HasProductionCount(agent) /\ IsWinner(r.agent)]
        Blended(r, bonus) == Entry(r, bonus, BlendReward(r.reward, bonus))
        Stepped(r) == Blended(r, ProductionReward(last_agent_state, r.agent))
    IN Stepped(AgentStep(agent, action))

\* The body of the for loop of step for one device: agent.step(action[i]),
\* agent.current_power read after it, the reward appended to reward_n, the
\* production device's current_reward overwritten by the blended reward.
TickAgent(agent, action) ==
    LET last_agent_state == agent.current_state
        Entry(r, bonus, blended) ==
            IF HasProductionCount(agent)
            THEN [agent        |-> [r.agent EXCEPT !.current_reward = blended],
                  ob           |-> r.ob,
                  state_reward |-> r.reward,
                  done         |-> r.done,
                  power        |-> current_power(r.agent),
                  produced     |-> IF bonus = Unit THEN 1 ELSE 0,
                  reward       |-> blended,
                  winner       |-> IsWinner(r.agent)]
            ELSE [agent        |-> r.agent,
                  ob           |-> r.ob,
                  state_reward |-> r.reward,
                  done         |-> r.done,
                  power        |-> current_power(r.agent),
                  produced     |-> 0,
                  reward       |-> r.reward,
                  winner       |-> FALSE]
        Blended(r, bonus) == Entry(r, bonus, BlendReward(r.reward, bonus))
        Stepped(r) == Blended(r, ProductionReward(last_agent_state, r.agent))
    IN Stepped(AgentStep(agent, action))

\* The broadcast with the mean of the rewards in place of their sum.
SharedReward_Mean(reward_n, shared) ==
    IF shared
    THEN [i \in 1..Len(reward_n) |-> SumSeq(reward_n) \div Len(reward_n)]
    ELSE reward_n

\* reward = np.sum(reward_n); if shared_reward: reward_n = [reward] * n
SharedReward(reward_n, shared) ==
    IF shared THEN [i \in 1..Len(reward_n) |-> SumSeq(reward_n)] ELSE reward_n

\* done = np.sum(np.array(done_n, dtype=np.bool)) > 0
AnyDone(done_n) == \E i \in 1..Len(done_n) : done_n[i]

\* (current_system_power * current_energy_price) > energy_cost_budget
BudgetExceeded(system_power, energy_price, budget) ==
    system_power * energy_price > budget

\* The penalty as a flat reward: reward_n = [-0.5] * self.n
Penalised_Flat(reward_n) == [i \in 1..Len(reward_n) |-> -(Unit \div 2)]

\* reward_n = [(r - 0.5) for r in reward_n]
Penalised(reward_n) == [i \in 1..Len(reward_n) |-> reward_n[i] - (Unit \div 2)]

\* The indices (0-based, as the code appends them) of the devices of this
\* tick that are winners, in registration order.
RECURSIVE WinnersOf(_, _)
WinnersOf(res, i) ==
    IF i > Len(res) THEN <<>>
    ELSE (IF res[i].winner THEN <<i - 1>> ELSE <<>>) \o WinnersOf(res, i + 1)

\* ----------------------------------------------------------- configurations
\* environement_config of the YAML file: the values the coordinator reads in
\* configure().  Prices and budget are integers; the load tolerance is 0.1.
EnvConfig ==
    [max_allowed_power  |-> 100,
     energy_cost_budget |-> 40,
     tou_generartor     |-> [steps |-> <<0, 3>>, values |-> <<1, 2>>],
     load_profile       |-> [steps |-> <<0, 2>>, values |-> <<50, 80>>,
                             tolerance_factor |-> Unit \div 10]]

LinearConf    == [type |-> "EFlexAgentPLinear", p_min |-> 10, p_max |-> 50, p_slope |-> 10]
ConstantConf  == [type |-> "EFlexAgentPConstant", p_min |-> 5, p_max |-> 20, p_slope |-> 0]
StorageConf   == [type |-> "EFlexEnergyStorageAgent", p_min |-> 0, p_max |-> 100, p_slope |-> 25]
GeneratorConf == [type |-> "EFLEXEnergyGeneratorAgent", p_min |-> 0, p_max |-> 50, p_slope |-> 20]
MainGridConf  == [type |-> "EFLEXEnergyMainGridAgent", p_min |-> 0, p_max |-> 30, p_slope |-> 0]

\* The agents sections explored, each with the values of shared_reward it is
\* configured with, the length of its scripted prefix, the number of free
\* ticks explored after it, and the numbers of failing steps and of seed()
\* calls explored.  The last one configures a negative
\* max_allowed_power, which neither configure() nor a constructor rejects (a
\* zero one makes the constructor's reset() divide by zero in _get_obs).
Scenarios ==
    << [agents |-> <<LinearConf>>, shared |-> {FALSE},
        max_allowed_power |-> EnvConfig.max_allowed_power,
        warm |-> 0, ticks |-> MaxTicksSolo,
        errors |-> MaxErrors, seeds |-> MaxSeeds],
       [agents |-> <<StorageConf, GeneratorConf>>, shared |-> BOOLEAN,
        max_allowed_power |-> EnvConfig.max_allowed_power,
        warm |-> 0, ticks |-> MaxTicks, errors |-> 0, seeds |-> 0],
       [agents |-> <<LinearConf, MainGridConf>>, shared |-> BOOLEAN,
        max_allowed_power |-> EnvConfig.max_allowed_power,
        warm |-> PairWarmTicks, ticks |-> MaxTicksPair, errors |-> 0, seeds |-> 0],
       [agents |-> <<StorageConf, GeneratorConf, MainGridConf>>, shared |-> BOOLEAN,
        max_allowed_power |-> EnvConfig.max_allowed_power,
        warm |-> 0, ticks |-> MaxTicksTrio, errors |-> MaxErrors, seeds |-> 0],
       [agents |-> <<MainGridConf, ConstantConf>>, shared |-> {FALSE},
        max_allowed_power |-> EnvConfig.max_allowed_power,
        warm |-> WarmTicks, ticks |-> MaxTicksPair, errors |-> 0, seeds |-> 0],
       [agents |-> <<StorageConf>>, shared |-> {FALSE},
        max_allowed_power |-> EnvConfig.max_allowed_power,
        warm |-> 0, ticks |-> MaxTicksSolo, errors |-> 0, seeds |-> 0],
       [agents |-> <<MainGridConf>>, shared |-> {FALSE},
        max_allowed_power |-> -EnvConfig.max_allowed_power,
        warm |-> 0, ticks |-> MaxTicksPair, errors |-> MaxErrors, seeds |-> 0] >>

\* ------------------------------------------------------------------- state
VARIABLES
    agents,                \* self.agents: the devices, in registration order
    tou_generator,         \* self.tou_generator
    load_profile,          \* self.load_profile
    shared_reward,         \* self.shared_reward
    max_allowed_power,     \* self.max_allowed_power
    energy_cost_budget,    \* self.energy_cost_budget
    current_system_power,  \* self.current_system_power
    global_reward,         \* self.global_reward, as the fraction num / den
    current_winner,        \* self.current_winner (a list)
    call,                  \* the last call: its name, arguments, locals, result
    completions,           \* per device: Execute -> Completed transitions
                           \* taken since the last reset (history)
    step_calls,            \* calls of step since construction (history)
    episode_ticks,         \* completed ticks since the last reset (history)
    seed_value,            \* self.seed_value
    errors,                \* calls with an out-of-range action still to explore
    seeds,                 \* calls of seed() still to explore
    charge_run,            \* per device: k if all it has received since its
                           \* construction is k Charge actions, else -1 (history)
    warm,                  \* scripted ticks still to run
    ticks                  \* free ticks still to explore

vars == <<agents, tou_generator, load_profile, shared_reward, max_allowed_power,
          energy_cost_budget, current_system_power, global_reward,
          current_winner, call, completions, step_calls, episode_ticks, seed_value,
          errors, seeds, charge_run, warm, ticks>>

n == Len(agents)

\* configure(): the coordinator after reading the configuration, building
\* the generators and the devices, seeding and calling reset().
Init ==
    \E k \in 1..Len(Scenarios) : \E shared \in Scenarios[k].shared :
        LET sc == Scenarios[k] IN
        /\ shared_reward = shared
        /\ max_allowed_power = sc.max_allowed_power
        /\ energy_cost_budget = EnvConfig.energy_cost_budget
        /\ tou_generator = TOUGeneratorInit(EnvConfig.tou_generartor)
        /\ load_profile = LoadProfileInit(EnvConfig.load_profile)
        /\ agents = [i \in 1..Len(sc.agents) |->
                        AgentReset(AgentInit(sc.agents[i], sc.max_allowed_power))]
        /\ current_winner = <<>>
        /\ global_reward = [num |-> 0, den |-> 1]
        /\ current_system_power = 0
        /\ call = [op |-> "configure"]
        /\ completions = [i \in 1..Len(sc.agents) |-> 0]
        /\ step_calls = 0
        /\ episode_ticks = 0
        /\ seed_value = "None"
        /\ errors = sc.errors
        /\ seeds = sc.seeds
        /\ charge_run = [i \in 1..Len(sc.agents) |-> 0]
        /\ warm = sc.warm
        /\ ticks = sc.ticks

\* The action vectors of a tick: every in-range action of every device;
\* during the scripted prefix the one vector that drives the production
\* devices through Reset, then Start, SC, SC repeatedly, and leaves the other
\* devices in Stopped (action 0, SC).
ScriptAction(agent) ==
    IF ~HasProductionCount(agent) THEN 0
    ELSE CASE agent.current_state = "Stopped"   -> 3
           [] agent.current_state = "Idle"      -> 10
           [] OTHER                             -> 0

RECURSIVE InRangeVectors(_, _)
InRangeVectors(devs, i) ==
    IF i > Len(devs) THEN {<<>>}
    ELSE {<<x>> \o v : x \in ActionSpace(devs[i].type), v \in InRangeVectors(devs, i + 1)}

ActionVectors ==
    IF warm > 0 THEN {[i \in 1..n |-> ScriptAction(agents[i])]}
    ELSE InRangeVectors(agents, 1)

\* The for loop of step over the devices from index i on, in registration
\* order: the per-device results as a sequence.
RECURSIVE TickAll(_, _, _)
TickAll(devs, action, i) ==
    IF i > Len(devs) THEN <<>>
    ELSE <<TickAgent(devs[i], action[i])>> \o TickAll(devs, action, i + 1)

\* The column f of a sequence of records, as a sequence.
RECURSIVE Column(_, _, _)
Column(res, f, i) ==
    IF i > Len(res) THEN <<>> ELSE <<res[i][f]>> \o Column(res, f, i + 1)

\* step(action) of the coordinator with the tick also ended when the system
\* power is above the load limit.
CoordinatorStep_LoadCapped(devs, tou_gen, load_prof, shared, budget, winners, action) ==
    LET Returned(tou, load, res) ==
            LET current_energy_price == tou.current_tou_value
                reward_0 == Column(res, "reward", 1)
                reward_1 == SharedReward(reward_0, shared)
                done_n   == Column(res, "done", 1)
                power_n  == Column(res, "power", 1)
                produced == Column(res, "produced", 1)
                power    == SumSeq(power_n)
                exceeded == BudgetExceeded(power, current_energy_price, budget)
                reward_n == IF exceeded THEN Penalised(reward_1) ELSE reward_1
                done     == IF exceeded \/ power * Unit > load.current_max_load
                            THEN TRUE ELSE AnyDone(done_n)
            IN [tou_generator        |-> tou,
                load_profile         |-> load,
                agents               |-> Column(res, "agent", 1),
                current_winner       |-> winners \o WinnersOf(res, 1),
                current_system_power |-> power,
                global_reward        |-> [num |-> SumSeq(reward_n), den |-> Len(devs)],
                produced             |-> produced,
                call |-> [op              |-> "step",
                          action          |-> action,
                          before          |-> devs,
                          tou_before      |-> tou_gen,
                          load_before     |-> load_prof,
                          winner_before   |-> winners,
                          state_reward_n  |-> Column(res, "state_reward", 1),
                          done_n          |-> done_n,
                          current_power_n |-> power_n,
                          obs_n           |-> Column(res, "ob", 1),
                          reward_n        |-> reward_n,
                          done            |-> done,
                          info |-> [current_energy_price |-> current_energy_price,
                                    max_load_pofile      |-> load.current_max_load,
                                    current_system_power |-> power,
                                    energy_cost_budget   |-> budget,
                                    production           |-> SumSeq(produced)]]]
    IN Returned(TOUGeneratorStep(tou_gen), LoadProfileStep(load_prof),
                TickAll(devs, action, 1))

\* step(action) of the coordinator, for an action vector in range: the
\* fields the call assigns, its locals and what it returns.
CoordinatorStep(devs, tou_gen, load_prof, shared, budget, winners, action) ==
    LET Returned(tou, load, res) ==
            LET current_energy_price == tou.current_tou_value
                reward_0 == Column(res, "reward", 1)
                reward_1 == SharedReward(reward_0, shared)
                done_n   == Column(res, "done", 1)
                power_n  == Column(res, "power", 1)
                produced == Column(res, "produced", 1)
                power    == SumSeq(power_n)
                exceeded == BudgetExceeded(power, current_energy_price, budget)
                reward_n == IF exceeded THEN Penalised(reward_1) ELSE reward_1
                done     == IF exceeded THEN TRUE ELSE AnyDone(done_n)
            IN [tou_generator        |-> tou,
                load_profile         |-> load,
                agents               |-> Column(res, "agent", 1),
                current_winner       |-> winners \o WinnersOf(res, 1),
                current_system_power |-> power,
                global_reward        |-> [num |-> SumSeq(reward_n), den |-> Len(devs)],
                produced             |-> produced,
                call |-> [op              |-> "step",
                          action          |-> action,
                          before          |-> devs,
                          tou_before      |-> tou_gen,
                          load_before     |-> load_prof,
                          winner_before   |-> winners,
                          state_reward_n  |-> Column(res, "state_reward", 1),
                          done_n          |-> done_n,
                          current_power_n |-> power_n,
                          obs_n           |-> Column(res, "ob", 1),
                          reward_n        |-> reward_n,
                          done            |-> done,
                          info |-> [current_energy_price |-> current_energy_price,
                                    max_load_pofile      |-> load.current_max_load,
                                    current_system_power |-> power,
                                    energy_cost_budget   |-> budget,
                                    production           |-> SumSeq(produced)]]]
    IN Returned(TOUGeneratorStep(tou_gen), LoadProfileStep(load_prof),
                TickAll(devs, action, 1))

Step ==
    /\ warm > 0 \/ ticks > 0
    /\ \E action \in ActionVectors :
       \E out \in {CoordinatorStep(agents, tou_generator, load_profile, shared_reward,
                                   energy_cost_budget, current_winner, action)} :
        /\ tou_generator' = out.tou_generator
        /\ load_profile' = out.load_profile
        /\ agents' = out.agents
        /\ current_winner' = out.current_winner
        /\ current_system_power' = out.current_system_power
        /\ global_reward' = out.global_reward
        /\ completions' = [i \in 1..n |-> completions[i] + out.produced[i]]
        /\ charge_run' = [i \in 1..n |->
                IF charge_run[i] >= 0 /\ ActEnum(agents[i].type, action[i]) = "Charge"
                THEN charge_run[i] + 1 ELSE -1]
        /\ call' = out.call
    /\ step_calls' = step_calls + 1
    /\ episode_ticks' = episode_ticks + 1
    /\ warm' = IF warm > 0 THEN warm - 1 ELSE 0
    /\ ticks' = IF warm > 0 THEN ticks ELSE ticks - 1
    /\ UNCHANGED <<shared_reward, max_allowed_power, energy_cost_budget,
                   seed_value, errors, seeds>>

\* reset() of the coordinator: the devices after their reset() and the
\* observations returned.
CoordinatorReset(devs) ==
    [agents |-> [i \in 1..Len(devs) |-> AgentReset(devs[i])],
     obs_n  |-> [i \in 1..Len(devs) |-> _get_obs(AgentReset(devs[i]))]]

Reset ==
    /\ warm = 0
    /\ \E out \in {CoordinatorReset(agents)} :
        /\ agents' = out.agents
        /\ call' = [op |-> "reset", before |-> agents, obs_n |-> out.obs_n,
                    tou_before |-> tou_generator, load_before |-> load_profile]
    /\ current_winner' = <<>>
    /\ global_reward' = [num |-> 0, den |-> 1]
    /\ current_system_power' = 0
    /\ tou_generator' = TOUGeneratorReset(tou_generator)
    /\ load_profile' = LoadProfileReset(load_profile)
    /\ completions' = [i \in 1..n |-> 0]
    /\ charge_run' = [i \in 1..n |-> -1]
    /\ episode_ticks' = 0
    /\ UNCHANGED <<shared_reward, max_allowed_power, energy_cost_budget,
                   step_calls, seed_value, errors, seeds, warm, ticks>>

\* The loop body of step for device i on the working list of the tick: the
\* entry of device i is replaced by the result of its advance; the body reads
\* no entry but its own.
LoopBody_ReadsFirst(acc, i, action) ==
    [acc EXCEPT ![i] = [TickAgent(acc[i].agent, action[i])
                           EXCEPT !.power = current_power(acc[1].agent)]]

LoopBody(acc, i, action) ==
    [acc EXCEPT ![i] = TickAgent(acc[i].agent, action[i])]

\* The device loop of step run in the order given (a sequence of device
\* indices), each result stored at the index of its device.
RECURSIVE LoopFrom(_, _, _, _)
LoopFrom(acc, action, order, k) ==
    IF k > Len(order) THEN acc
    ELSE LoopFrom(LoopBody(acc, order[k], action), action, order, k + 1)

StepInOrder(devs, action, order) ==
    LoopFrom([i \in 1..Len(devs) |-> [agent |-> devs[i]]], action, order, 1)

\* Load profiles another coordinator may be configured with: other
\* breakpoints, other values, another tolerance_factor.
OtherLoadConfs ==
    { [steps |-> <<0, 1>>, values |-> <<0, 200>>, tolerance_factor |-> 0],
      [steps |-> <<0>>, values |-> <<1>>, tolerance_factor |-> Unit \div 2] }

\* The load profile constructed from load_conf after k calls of its step.
RECURSIVE LoadProfileAfter(_, _)
LoadProfileAfter(load_conf, k) ==
    IF k = 0 THEN LoadProfileInit(load_conf)
    ELSE LoadProfileStep(LoadProfileAfter(load_conf, k - 1))

\* Transition(action) of the first line of a device's step raises ValueError:
\* the integer is not the value of a member of the transition enumeration.
AgentStepRaises(self, action) == action \notin ActionSpace(self.type)

\* The device after a step whose action is validated only at its end, the
\* tick counter already advanced.
AgentAfterRaise_Ticked(self, action) ==
    [self EXCEPT !.currentStep = self.currentStep + 1]

\* The device after a step that raised: the conversion is the first statement
\* that can fail and nothing of the device is assigned before it.
AgentAfterRaise(self, action) == self

\* The out-of-range integers tried for a device: one below and one above its
\* alphabet.
BadActions(type) == {-1, Len(TransitionEnum(type))}

\* The index of the first device from i on whose step raises, 0 if none does.
RECURSIVE FirstBad(_, _, _)
FirstBad(devs, action, i) ==
    IF i > Len(devs) THEN 0
    ELSE IF AgentStepRaises(devs[i], action[i]) THEN i
    ELSE FirstBad(devs, action, i + 1)

\* The action vectors with an out-of-range entry: in-range entries before the
\* first bad one; the entries after it are never read (0 here).
RECURSIVE BadVectors(_, _)
BadVectors(devs, i) ==
    IF i > Len(devs) THEN {}
    ELSE {<<x>> \o [k \in 1..(Len(devs) - i) |-> 0] : x \in BadActions(devs[i].type)}
         \cup {<<x>> \o v : x \in ActionSpace(devs[i].type),
                             v \in BadVectors(devs, i + 1)}

\* step(action) of the coordinator when the step of device j raises: the
\* generators have been advanced, the devices before j have been stepped and
\* their winners appended, and the exception leaves the rest of step undone
\* (current_system_power and global_reward are not assigned).
CoordinatorStepRaises(devs, tou_gen, load_prof, winners, action) ==
    LET Raised(tou, load, j, res) ==
            [tou_generator  |-> tou,
             load_profile   |-> load,
             agents         |-> Column(res, "agent", 1)
                                  \o <<AgentAfterRaise(devs[j], action[j])>>
                                  \o SubSeq(devs, j + 1, Len(devs)),
             current_winner |-> winners \o WinnersOf(res, 1),
             produced       |-> Column(res, "produced", 1)
                                  \o [k \in 1..(Len(devs) - j + 1) |-> 0],
             failed         |-> j]
        AtIndex(j) ==
            Raised(TOUGeneratorStep(tou_gen), LoadProfileStep(load_prof), j,
                   TickAll(SubSeq(devs, 1, j - 1), action, 1))
    IN AtIndex(FirstBad(devs, action, 1))

StepError ==
    /\ warm = 0 /\ ticks > 0 /\ errors > 0
    /\ \E action \in BadVectors(agents, 1) :
       \E out \in {CoordinatorStepRaises(agents, tou_generator, load_profile,
                                         current_winner, action)} :
        /\ tou_generator' = out.tou_generator
        /\ load_profile' = out.load_profile
        /\ agents' = out.agents
        /\ current_winner' = out.current_winner
        /\ completions' = [i \in 1..n |-> completions[i] + out.produced[i]]
        /\ charge_run' = [i \in 1..n |->
                IF i > out.failed THEN charge_run[i]
                ELSE IF /\ i < out.failed
                        /\ charge_run[i] >= 0
                        /\ ActEnum(agents[i].type, action[i]) = "Charge"
                     THEN charge_run[i] + 1
                ELSE -1]
        /\ call' = [op              |-> "step_error",
                    action          |-> action,
                    failed          |-> out.failed,
                    before          |-> agents,
                    tou_before      |-> tou_generator,
                    load_before     |-> load_profile,
                    winner_before   |-> current_winner,
                    power_before    |-> current_system_power]
    /\ step_calls' = step_calls + 1
    /\ errors' = errors - 1
    /\ ticks' = ticks - 1
    /\ UNCHANGED <<shared_reward, max_allowed_power, energy_cost_budget,
                   current_system_power, global_reward, episode_ticks,
                   seed_value, seeds, warm>>

\* The seeds given to seed().
SeedValues == {7}

\* seed(seed) of the coordinator: seed_value is assigned and the generators
\* and the devices are reseeded (their random sources drive nothing else);
\* no state is tested and nothing is raised.
CoordinatorSeed(seed) == [seed_value |-> seed, error |-> FALSE]

Seed ==
    /\ warm = 0 /\ seeds > 0
    /\ \E seed \in SeedValues : \E out \in {CoordinatorSeed(seed)} :
        /\ seed_value' = out.seed_value
        /\ call' = [op |-> "seed", seed |-> seed, error |-> out.error]
    /\ seeds' = seeds - 1
    /\ UNCHANGED <<agents, tou_generator, load_profile, shared_reward,
                   max_allowed_power, energy_cost_budget, current_system_power,
                   global_reward, current_winner, completions, step_calls,
                   episode_ticks, errors, charge_run, warm, ticks>>

Next == Step \/ StepError \/ Reset \/ Seed

Spec == Init /\ [][Next]_vars

\* ================================================================== claims
\* Shorthands over the record of the last call.
IsStep == call.op = "step"

\* The budget test on the state the tick leaves.
Exceeded ==
    current_system_power * tou_generator.current_tou_value > energy_cost_budget

SomeAborted == \E i \in 1..n : agents[i].current_state = "Aborted"

SomeCapped ==
    \E i \in 1..n : /\ agents[i].type \in ProductionTypes
                    /\ agents[i].production_count >= 20

\* C1: the done flag returned by the coordinator's step is true exactly when,
\* after the tick, the system power times the current price exceeds the
\* budget, or some device is in Aborted, or some production device has
\* production_count >= 20.
C1_DoneExactly ==
    IsStep => (call.done <=> (Exceeded \/ SomeAborted \/ SomeCapped))

\* A tick that is done only because a production device reached the cap.
C1_Witness ==
    /\ IsStep
    /\ call.done
    /\ ~Exceeded
    /\ ~SomeAborted
    /\ SomeCapped

\* The reward of device i in the last tick before sharing and penalty: the
\* blend of state reward and production bonus for a production device, the
\* state reward for the others.
IndividualReward(i) ==
    IF agents[i].type \in ProductionTypes
    THEN call.state_reward_n[i] \div 2
         + (IF call.before[i].current_state = "Execute"
               /\ agents[i].current_state = "Completed"
            THEN Unit \div 2 ELSE 0)
    ELSE call.state_reward_n[i]

\* The reward of device i in the last tick before the penalty.
UnpenalisedReward(i) ==
    IF shared_reward
    THEN SumSeq([j \in 1..n |-> IndividualReward(j)])
    ELSE IndividualReward(i)

\* C2: in a tick every returned reward is reduced by exactly 0.5 if the
\* system power times the price is strictly greater than the budget, and by
\* nothing otherwise, in individual and in shared-reward mode.
C2_PenaltyExactly ==
    IsStep =>
        \A i \in 1..n :
            call.reward_n[i] =
                UnpenalisedReward(i) - (IF Exceeded THEN Unit \div 2 ELSE 0)

\* A shared-reward tick over budget whose unpenalised reward is not zero.
C2_Witness ==
    /\ IsStep
    /\ shared_reward
    /\ Exceeded
    /\ UnpenalisedReward(1) # 0
    /\ \A i \in 1..n : call.reward_n[i] = UnpenalisedReward(i) - Unit \div 2

\* A tick whose cost equals the budget: no reward is reduced.
C2_WitnessEqual ==
    /\ IsStep
    /\ current_system_power * tou_generator.current_tou_value = energy_cost_budget
    /\ \A i \in 1..n : call.reward_n[i] = UnpenalisedReward(i)

\* C3: after configure/reset and after every tick, current_system_power is
\* the sum of current_power over the devices in their present state.
C3_SystemPowerIsSum ==
    call.op \in {"configure", "reset", "step"} =>
        current_system_power = SumSeq([i \in 1..n |-> current_power(agents[i])])

\* A tick leaving a non-zero system power with a generator in Generating,
\* whose power after the step differs from the one in its observation.
C3_Witness ==
    /\ IsStep
    /\ current_system_power # 0
    /\ \E i \in 1..n :
        /\ agents[i].type = "EFLEXEnergyGeneratorAgent"
        /\ agents[i].current_state = "Generating"
        /\ call.obs_n[i][Len(call.obs_n[i])] * agents[i].max_allowed_power
             # current_power(agents[i]) * Unit

\* The enum member of the action given to device i in the last tick.
ActionOf(i) == ActEnum(agents[i].type, call.action[i])

\* C4: in shared-reward mode, on a tick within budget, every entry of the
\* returned reward vector is the sum (not the mean) of the devices'
\* individual rewards of the tick, a production device contributing its
\* blended reward; individual rewards 1.0, -0.1, 0.3 are broadcast as 1.2.
C4_SharedIsSum ==
    /\ (IsStep /\ shared_reward /\ ~Exceeded) =>
          \A i \in 1..n :
              call.reward_n[i] = SumSeq([j \in 1..n |-> IndividualReward(j)])
    /\ SharedReward(<<Unit, -(Unit \div 10), (3 * Unit) \div 10>>, TRUE)
          = <<(12 * Unit) \div 10, (12 * Unit) \div 10, (12 * Unit) \div 10>>

\* A shared-reward tick within budget in which a production device completes
\* a production and another device has a non-zero reward of its own.
C4_Witness ==
    /\ IsStep /\ shared_reward /\ ~Exceeded
    /\ n >= 2
    /\ \E i \in 1..n :
        /\ agents[i].type \in ProductionTypes
        /\ call.before[i].current_state = "Execute"
        /\ agents[i].current_state = "Completed"
    /\ \E i \in 1..n :
        /\ agents[i].type \notin ProductionTypes
        /\ call.state_reward_n[i] # 0
    /\ \A i \in 1..n :
        call.reward_n[i] = SumSeq([j \in 1..n |-> IndividualReward(j)])

\* C5: in individual-reward mode, on a tick within budget, a production
\* device's returned reward is 0.5 * state reward + 0.5 * bonus with bonus 1.0
\* iff it was in Execute before the tick and is in Completed after it; the
\* reward of any other device is its state reward.
C5_IndividualBlend ==
    (IsStep /\ ~shared_reward /\ ~Exceeded) =>
        \A i \in 1..n :
            IF agents[i].type \in ProductionTypes
            THEN LET bonus == IF call.before[i].current_state = "Execute"
                                 /\ agents[i].current_state = "Completed"
                              THEN Unit ELSE 0
                 IN call.reward_n[i] = call.state_reward_n[i] \div 2 + bonus \div 2
            ELSE call.reward_n[i] = call.state_reward_n[i]

\* An individual-mode tick within budget in which a production device goes
\* from Execute to Completed and is rewarded 1.0, beside a device of another
\* class rewarded with its non-zero state reward.
C5_Witness ==
    /\ IsStep /\ ~shared_reward /\ ~Exceeded
    /\ \E i \in 1..n :
        /\ agents[i].type \in ProductionTypes
        /\ call.before[i].current_state = "Execute"
        /\ agents[i].current_state = "Completed"
        /\ call.reward_n[i] = Unit
    /\ \E i \in 1..n :
        /\ agents[i].type \notin ProductionTypes
        /\ call.state_reward_n[i] # 0
        /\ call.reward_n[i] = call.state_reward_n[i]

\* C6: a production device's production_count is the number of its
\* Execute -> Completed transitions since the last reset; in a tick it grows
\* by one exactly on action SC in Execute, which moves to Completed with state
\* reward 1.0, and SC in Completed moves to Idle with state reward 1.0 and
\* leaves it unchanged.
C6_ProductionCount ==
    \A i \in 1..n :
        agents[i].type \in ProductionTypes =>
            /\ agents[i].production_count = completions[i]
            /\ IsStep =>
                LET b == call.before[i] IN
                /\ (b.current_state = "Execute" /\ ActionOf(i) = "SC") =>
                       /\ agents[i].current_state = "Completed"
                       /\ call.state_reward_n[i] = Unit
                       /\ agents[i].production_count = b.production_count + 1
                /\ ~(b.current_state = "Execute" /\ ActionOf(i) = "SC") =>
                       agents[i].production_count = b.production_count
                /\ (b.current_state = "Completed" /\ ActionOf(i) = "SC") =>
                       /\ agents[i].current_state = "Idle"
                       /\ call.state_reward_n[i] = Unit
                       /\ agents[i].production_count = b.production_count

\* A production device that has completed a production in this episode after
\* an earlier episode in which it had completed one too.
C6_Witness ==
    \E i \in 1..n :
        /\ agents[i].type \in ProductionTypes
        /\ IsStep
        /\ call.before[i].current_state = "Execute"
        /\ agents[i].current_state = "Completed"
        /\ agents[i].production_count = 1
        /\ agents[i].currentStep < tou_generator.current_step

\* C7: for every device class, Abort in a state other than Aborted moves the
\* device to Aborted with state reward -0.1.
C7_AbortFromAnywhere ==
    IsStep =>
        \A i \in 1..n :
            (call.before[i].current_state # "Aborted" /\ ActionOf(i) = "Abort") =>
                /\ agents[i].current_state = "Aborted"
                /\ call.state_reward_n[i] = -(Unit \div 10)

\* A tick that aborts a production device in Execute and a grid device.
C7_Witness ==
    /\ IsStep
    /\ \E i \in 1..n :
        /\ agents[i].type \in ProductionTypes
        /\ call.before[i].current_state = "Execute"
        /\ ActionOf(i) = "Abort"
        /\ agents[i].current_state = "Aborted"
    /\ \E i \in 1..n :
        /\ agents[i].type = "EFLEXEnergyMainGridAgent"
        /\ call.before[i].current_state # "Aborted"
        /\ ActionOf(i) = "Abort"
        /\ agents[i].current_state = "Aborted"

\* C8: a production, storage or generator device in Aborted leaves Aborted
\* only by Clear, which moves it to Stopped with state reward 1.0; any other
\* action keeps it in Aborted with state reward 0.0.
C8_ClearOnlyRecovery ==
    IsStep =>
        \A i \in 1..n :
            (agents[i].type # "EFLEXEnergyMainGridAgent"
             /\ call.before[i].current_state = "Aborted") =>
                IF ActionOf(i) = "Clear"
                THEN /\ agents[i].current_state = "Stopped"
                     /\ call.state_reward_n[i] = Unit
                ELSE /\ agents[i].current_state = "Aborted"
                     /\ call.state_reward_n[i] = 0

\* A tick in which an aborted storage device is cleared while an aborted
\* generator, given another action, stays aborted.
C8_Witness ==
    /\ IsStep
    /\ \E i \in 1..n :
        /\ agents[i].type = "EFlexEnergyStorageAgent"
        /\ call.before[i].current_state = "Aborted"
        /\ ActionOf(i) = "Clear"
        /\ agents[i].current_state = "Stopped"
    /\ \E i \in 1..n :
        /\ agents[i].type = "EFLEXEnergyGeneratorAgent"
        /\ call.before[i].current_state = "Aborted"
        /\ ActionOf(i) # "Clear"
        /\ agents[i].current_state = "Aborted"

\* C9: a MainGrid device in Aborted is still in Aborted after a step,
\* whatever the action, Clear included; only reset() takes it out.
C9_GridAbortedStays ==
    IsStep =>
        \A i \in 1..n :
            (agents[i].type = "EFLEXEnergyMainGridAgent"
             /\ call.before[i].current_state = "Aborted") =>
                agents[i].current_state = "Aborted"

\* An aborted grid device given Clear, still aborted after the tick.
C9_Witness ==
    /\ IsStep
    /\ \E i \in 1..n :
        /\ agents[i].type = "EFLEXEnergyMainGridAgent"
        /\ call.before[i].current_state = "Aborted"
        /\ ActionOf(i) = "Clear"
        /\ agents[i].current_state = "Aborted"

\* C10: every step of a MainGrid device that is already in Aborted returns
\* state reward 0.0 and leaves current_power 0, whatever the action.
C10_GridAbortedZero ==
    IsStep =>
        \A i \in 1..n :
            (agents[i].type = "EFLEXEnergyMainGridAgent"
             /\ call.before[i].current_state = "Aborted") =>
                /\ call.state_reward_n[i] = 0
                /\ call.current_power_n[i] = 0
                /\ current_power(agents[i]) = 0

\* The device of registration index i (0-based i - 1) occurs in winners.
InWinners(i) == \E k \in 1..Len(current_winner) : current_winner[k] = i - 1

\* C11: on a tick that leaves a production device with production_count >= 20
\* the device's step reports done and the device's index is in winners; the
\* count stays at or above 20 over later ticks, so this holds on every later
\* tick until reset(), whether or not the device is in Aborted.
C11_CapDoneAndWinner ==
    IsStep =>
        \A i \in 1..n :
            agents[i].type \in ProductionTypes =>
                /\ agents[i].production_count >= 20 =>
                       /\ call.done_n[i]
                       /\ InWinners(i)
                /\ call.before[i].production_count >= 20 =>
                       agents[i].production_count >= 20

\* A tick later than the one that reached the cap: the device had 20
\* productions before it, is not in Aborted, reports done and is a winner.
C11_Witness ==
    /\ IsStep
    /\ \E i \in 1..n :
        /\ agents[i].type \in ProductionTypes
        /\ call.before[i].production_count >= 20
        /\ agents[i].production_count >= 20
        /\ agents[i].current_state # "Aborted"
        /\ call.done_n[i]
        /\ InWinners(i)

\* C12: no device index occurs more than once in winners.
C12_WinnersNoDuplicate ==
    \A j, k \in 1..Len(current_winner) :
        j # k => current_winner[j] # current_winner[k]

\* The number of states of the class of device i.
NumStates(i) == Cardinality(StateEnum(agents[i].type))

\* C13: every observation returned by a tick or a reset carries exactly one
\* 1.0 among the slots below the number of states, and 0 in the
\* second-to-last slot (index = number of states).
C13_ObsLayout ==
    call.op \in {"step", "reset"} =>
        \A i \in 1..n :
            LET ob == call.obs_n[i] IN
            /\ Len(ob) = NumStates(i) + 2
            /\ Cardinality({k \in 1..NumStates(i) : ob[k] = Unit}) = 1
            /\ ob[NumStates(i) + 1] = 0

\* The observation with a single 1.0 at the index of Stopped.
StoppedObs(type) ==
    [k \in 1..(Cardinality(StateEnum(type)) + 2) |->
        IF k = StateValue(type, "Stopped") + 1 THEN Unit ELSE 0]

\* C14: the observation reset() returns for a device has exactly one 1.0, at
\* the index of Stopped, and 0.0 in every other slot, the power-fraction slot
\* included, whatever the device did before.
C14_ResetObs ==
    call.op = "reset" =>
        \A i \in 1..n : call.obs_n[i] = StoppedObs(agents[i].type)

\* A reset of a configuration in which a generator was generating with a
\* stored last_power and a grid device was selling.
C14_Witness ==
    /\ call.op = "reset"
    /\ \E i \in 1..n :
        /\ call.before[i].type = "EFLEXEnergyGeneratorAgent"
        /\ call.before[i].current_state = "Generating"
        /\ call.before[i].last_power > 0
    /\ \E i \in 1..n :
        /\ call.before[i].type = "EFLEXEnergyMainGridAgent"
        /\ call.before[i].current_state = "Selling"
    /\ \A i \in 1..n : call.obs_n[i] = StoppedObs(agents[i].type)

\* C15: after reset() every device is in Stopped with current_step,
\* start_step and current_reward 0 and with its accumulator (production_count,
\* charging_level, last_power) back at its construction-time value 0.
C15_ResetRestores ==
    call.op = "reset" =>
        \A i \in 1..n :
            /\ agents[i].current_state = "Stopped"
            /\ agents[i].currentStep = 0
            /\ agents[i].startStep = 0
            /\ agents[i].current_reward = 0
            /\ agents[i].type \in ProductionTypes => agents[i].production_count = 0
            /\ agents[i].type = "EFlexEnergyStorageAgent" =>
                   agents[i].charging_level = 0
            /\ agents[i].type \in {"EFLEXEnergyGeneratorAgent",
                                   "EFLEXEnergyMainGridAgent"} =>
                   agents[i].last_power = 0

\* The power of the linear producer p_min=10, p_max=50, p_slope=10 at delta.
LinearTable(delta) ==
    CASE delta = 0 -> 10
      [] delta = 1 -> 20
      [] delta = 2 -> 30
      [] delta = 3 -> 40
      [] delta >= 4 -> 50

\* C16: for the linear producer with p_min=10, p_max=50, p_slope=10 in Execute
\* or Completed after a tick, the power is 10, 20, 30, 40, 50 for delta = 0..4
\* and 50 for delta >= 4, with delta = current_step - start_step: delta is 0 in
\* the observation of the tick that enters Execute by Start (1 after it) and
\* grows by one per tick while the device stays in Execute or Completed.
C16_LinearRamp ==
    IsStep =>
        \A i \in 1..n :
            (/\ agents[i].type = "EFlexAgentPLinear"
             /\ agents[i].p_min = 10 /\ agents[i].p_max = 50 /\ agents[i].p_slope = 10
             /\ agents[i].current_state \in {"Execute", "Completed"}) =>
                LET delta  == agents[i].currentStep - agents[i].startStep
                    b      == call.before[i]
                    ob     == call.obs_n[i]
                IN /\ delta >= 1
                   /\ current_power(agents[i]) = LinearTable(delta)
                   /\ call.current_power_n[i] = LinearTable(delta)
                   /\ ob[Len(ob)] * agents[i].max_allowed_power
                          = LinearTable(delta - 1) * Unit
                   /\ b.current_state \in {"Execute", "Completed"} =>
                          delta = (b.currentStep - b.startStep) + 1
                   /\ (b.current_state = "Idle" /\ ActionOf(i) = "Start") =>
                          delta = 1

\* The linear producer still in Execute or Completed five ticks after it
\* entered Execute, at p_max, having been at p_max the tick before.
C16_Witness ==
    /\ IsStep
    /\ \E i \in 1..n :
        /\ agents[i].type = "EFlexAgentPLinear"
        /\ agents[i].current_state \in {"Execute", "Completed"}
        /\ call.before[i].current_state \in {"Execute", "Completed"}
        /\ agents[i].currentStep - agents[i].startStep = 5
        /\ current_power(agents[i]) = 50
        /\ current_power(call.before[i]) = 50

\* The storage devices with p_min=0, p_max=100, p_slope=25.
IsStorage25(i) ==
    /\ agents[i].type = "EFlexEnergyStorageAgent"
    /\ agents[i].p_min = 0 /\ agents[i].p_max = 100 /\ agents[i].p_slope = 25

\* C17 as stated: a freshly constructed storage device (Stopped,
\* charging_level 0) that has received k consecutive Charge actions, k = 1..4,
\* has charging_level 25 * k.
C17_FourCharges ==
    \A i \in 1..n :
        (IsStorage25(i) /\ charge_run[i] \in 1..4) =>
            agents[i].charging_level = 25 * charge_run[i]

\* C17 amended: the first Charge only switches the freshly constructed device
\* from Stopped to Charging and leaves charging_level at 0; after k consecutive
\* Charge actions, k = 1..5, charging_level is 25 * (k - 1): 0, 25, 50, 75, 100.
C17_ChargesAfterSwitch ==
    \A i \in 1..n :
        (IsStorage25(i) /\ charge_run[i] \in 1..5) =>
            /\ agents[i].current_state = "Charging"
            /\ agents[i].charging_level = 25 * (charge_run[i] - 1)

\* A freshly constructed storage device after five consecutive Charge
\* actions, at charging_level 100.
C17_Witness ==
    \E i \in 1..n :
        /\ IsStorage25(i)
        /\ charge_run[i] = 5
        /\ agents[i].charging_level = 100

\* 0.5 * (1 - (p_max - L)^2 / p_max^2) in fixed point.
Quadratic(p_max, L) ==
    (Unit * (p_max * p_max - (p_max - L) * (p_max - L))) \div (2 * p_max * p_max)

\* C18: on a storage tick that starts in Charging or Discharging with an
\* action other than Abort and Stop, the device ends in Charging or
\* Discharging and the state reward is 0.5 * (1 - (p_max - L)^2 / p_max^2) with
\* L the charging_level before the tick: 0, 0.21875, 0.375, 0.46875, 0.5 for
\* L = 0, 25, 50, 75, 100 and p_max = 100.
C18_RewardAtPriorLevel ==
    /\ IsStep =>
        \A i \in 1..n :
            (/\ agents[i].type = "EFlexEnergyStorageAgent"
             /\ call.before[i].current_state \in {"Charging", "Discharging"}
             /\ ActionOf(i) \notin {"Abort", "Stop"}) =>
                /\ agents[i].current_state \in {"Charging", "Discharging"}
                /\ call.state_reward_n[i] =
                       Quadratic(agents[i].p_max, call.before[i].charging_level)
    /\ <<Quadratic(100, 0), Quadratic(100, 25), Quadratic(100, 50),
         Quadratic(100, 75), Quadratic(100, 100)>>
           = <<0, 21875, 37500, 46875, 50000>>

\* A tick switching a storage device from Charging at level 50 to
\* Discharging: rewarded 0.375, the value at 50, with the level moved to 75.
C18_Witness ==
    /\ IsStep
    /\ \E i \in 1..n :
        /\ agents[i].type = "EFlexEnergyStorageAgent"
        /\ call.before[i].current_state = "Charging"
        /\ call.before[i].charging_level = 50
        /\ ActionOf(i) = "Discharge"
        /\ agents[i].current_state = "Discharging"
        /\ agents[i].charging_level = 75
        /\ call.state_reward_n[i] = 37500

\* C19 as stated: on the tick that switches a storage device from Stopped
\* into Charging or Discharging the state reward is the quadratic efficiency
\* value at its charging_level.
C19_SwitchRewardQuadratic ==
    IsStep =>
        \A i \in 1..n :
            (/\ agents[i].type = "EFlexEnergyStorageAgent"
             /\ call.before[i].current_state = "Stopped"
             /\ ActionOf(i) \in {"Charge", "Discharge"}) =>
                call.state_reward_n[i] =
                    Quadratic(agents[i].p_max, call.before[i].charging_level)

\* C19 amended: on the tick that switches a storage device from Stopped into
\* Charging (Charge) or Discharging (Discharge) the state reward is the flat
\* 0.1 and charging_level is unchanged; the quadratic value is the reward of
\* the ticks that start in Charging or Discharging.
C19_SwitchRewardFlat ==
    IsStep =>
        \A i \in 1..n :
            (/\ agents[i].type = "EFlexEnergyStorageAgent"
             /\ call.before[i].current_state = "Stopped"
             /\ ActionOf(i) \in {"Charge", "Discharge"}) =>
                /\ agents[i].current_state =
                       (IF ActionOf(i) = "Charge" THEN "Charging" ELSE "Discharging")
                /\ call.state_reward_n[i] = Unit \div 10
                /\ agents[i].charging_level = call.before[i].charging_level

\* A stopped storage device holding charge that is switched to Discharging
\* and rewarded 0.1, not the quadratic value of its level.
C19_Witness ==
    /\ IsStep
    /\ \E i \in 1..n :
        /\ agents[i].type = "EFlexEnergyStorageAgent"
        /\ call.before[i].current_state = "Stopped"
        /\ call.before[i].charging_level > 0
        /\ ActionOf(i) = "Discharge"
        /\ agents[i].current_state = "Discharging"
        /\ call.state_reward_n[i] = Unit \div 10
        /\ call.state_reward_n[i] #
               Quadratic(agents[i].p_max, call.before[i].charging_level)

\* C20: a generator's current_power lies in [-p_max, 0] in every reachable
\* state, after ticks and after resets, as does the power a tick reports.
C20_GeneratorPowerRange ==
    \A i \in 1..n :
        agents[i].type = "EFLEXEnergyGeneratorAgent" =>
            /\ -agents[i].p_max <= current_power(agents[i])
            /\ current_power(agents[i]) <= 0
            /\ IsStep => /\ -agents[i].p_max <= call.current_power_n[i]
                         /\ call.current_power_n[i] <= 0

\* A generator in Generating whose ramp has passed p_max and is clamped:
\* last_power 40 before the tick, power -p_max after it.
C20_Witness ==
    /\ IsStep
    /\ \E i \in 1..n :
        /\ agents[i].type = "EFLEXEnergyGeneratorAgent"
        /\ agents[i].current_state = "Generating"
        /\ call.before[i].last_power + agents[i].p_slope > agents[i].p_max
        /\ call.current_power_n[i] = -agents[i].p_max
        /\ current_power(agents[i]) = -agents[i].p_max

Min(a, b) == IF a < b THEN a ELSE b

\* The power (not the fraction) encoded in the last slot of the observation
\* of device i in the last tick is P.
ObsPowerIs(i, P) ==
    call.obs_n[i][Len(call.obs_n[i])] * agents[i].max_allowed_power = P * Unit

\* C21: on the k-th consecutive Generating tick of a generator (k = 1 on the
\* tick that enters Generating from Stopped, also after a reset() following an
\* earlier episode) the power in the observation is -min(p_max, k * p_slope).
\* Generating is entered only from Stopped, which records start_step, so k is
\* current_step - start_step after the tick.
C21_RampFromZero ==
    IsStep =>
        \A i \in 1..n :
            (/\ agents[i].type = "EFLEXEnergyGeneratorAgent"
             /\ agents[i].current_state = "Generating") =>
                ObsPowerIs(i, -Min(agents[i].p_max,
                                   (agents[i].currentStep - agents[i].startStep)
                                       * agents[i].p_slope))

\* C22: on a generator tick that starts and ends in Generating the state
\* reward is 0.2 * |P / p_max| with P = -min(p_max, last_power + p_slope) the
\* power in the observation of the same tick, last_power being the base left
\* by the previous tick; last_power becomes |P| only after the tick.
C22_GeneratingReward ==
    IsStep =>
        \A i \in 1..n :
            (/\ agents[i].type = "EFLEXEnergyGeneratorAgent"
             /\ call.before[i].current_state = "Generating"
             /\ agents[i].current_state = "Generating") =>
                LET P == Min(agents[i].p_max,
                             call.before[i].last_power + agents[i].p_slope)
                IN /\ ObsPowerIs(i, -P)
                   /\ call.state_reward_n[i] * 5 * agents[i].p_max = P * Unit
                   /\ agents[i].last_power = P

\* A generating tick on base 20: power -40 in the observation, reward 0.16,
\* and 40 as the base left for the next tick.
C22_Witness ==
    /\ IsStep
    /\ \E i \in 1..n :
        /\ agents[i].type = "EFLEXEnergyGeneratorAgent"
        /\ call.before[i].current_state = "Generating"
        /\ agents[i].current_state = "Generating"
        /\ call.before[i].last_power = 20
        /\ ObsPowerIs(i, -40)
        /\ call.state_reward_n[i] = 16000
        /\ agents[i].last_power = 40

\* The indices of the breakpoints strictly greater / strictly less than c.
Above(steps, c) == {k \in 1..Len(steps) : steps[k] > c}
Below(steps, c) == {k \in 1..Len(steps) : steps[k] < c}

SmallestOf(S) == CHOOSE k \in S : \A j \in S : k <= j
LargestOf(S) == CHOOSE k \in S : \A j \in S : k >= j

\* The load limit of value v: v * (1 + tolerance_factor), in fixed point.
LoadLimit(v) == v * (Unit + load_profile.tolerance_factor)

\* C23 as stated: after a step of a time-series generator the current value
\* is the value paired with the smallest breakpoint strictly greater than the
\* tick counter, whenever there is one.
C23_SmallestAbove ==
    step_calls > 0 =>
        /\ Above(tou_generator.steps, tou_generator.current_step) # {} =>
               tou_generator.current_tou_value =
                   tou_generator.values[
                       SmallestOf(Above(tou_generator.steps,
                                        tou_generator.current_step))]
        /\ Above(load_profile.steps, load_profile.current_step) # {} =>
               load_profile.current_max_load =
                   LoadLimit(load_profile.values[
                       SmallestOf(Above(load_profile.steps,
                                        load_profile.current_step))])

\* C23 amended: after a step the current value is the value paired with the
\* largest breakpoint strictly less than the tick counter, whenever there is
\* one (for the load limit, that value times 1 + tolerance_factor).
C23_LargestBelow ==
    step_calls > 0 =>
        /\ Below(tou_generator.steps, tou_generator.current_step) # {} =>
               tou_generator.current_tou_value =
                   tou_generator.values[
                       LargestOf(Below(tou_generator.steps,
                                       tou_generator.current_step))]
        /\ Below(load_profile.steps, load_profile.current_step) # {} =>
               load_profile.current_max_load =
                   LoadLimit(load_profile.values[
                       LargestOf(Below(load_profile.steps,
                                       load_profile.current_step))])

\* The price generator on the tick whose counter equals its second
\* breakpoint, still at the first value, while the load limit, whose second
\* breakpoint is passed, is at its second value.
C23_Witness ==
    /\ IsStep
    /\ tou_generator.current_step = tou_generator.steps[2]
    /\ tou_generator.current_tou_value = tou_generator.values[1]
    /\ load_profile.current_step > load_profile.steps[2]
    /\ load_profile.current_max_load = LoadLimit(load_profile.values[2])

\* The counter c is one past a breakpoint of steps.
JustPassed(steps, c) == \E k \in 1..Len(steps) : c = steps[k] + 1

C24_WitnessLast ==
    /\ IsStep
    /\ call.tou_before.current_step > tou_generator.steps[Len(tou_generator.steps)]
    /\ tou_generator.current_tou_value = tou_generator.values[Len(tou_generator.values)]

\* C25: reset() of the coordinator leaves the counters and values of both
\* generators as they were; a tick advances each counter by exactly one; so
\* each counter is the number of ticks since construction.
C25_ClockNotRewound ==
    /\ tou_generator.current_step = step_calls
    /\ load_profile.current_step = step_calls
    /\ call.op = "reset" =>
           /\ tou_generator = call.tou_before
           /\ load_profile = call.load_before
    /\ IsStep =>
           /\ tou_generator.current_step = call.tou_before.current_step + 1
           /\ load_profile.current_step = call.load_before.current_step + 1

\* A reset after the price and the load limit have moved to their second
\* values: both generators keep counter and value.
C25_Witness ==
    /\ call.op = "reset"
    /\ step_calls > tou_generator.steps[2]
    /\ tou_generator.current_step = step_calls
    /\ tou_generator.current_tou_value = tou_generator.values[2]
    /\ load_profile.current_max_load = LoadLimit(load_profile.values[2])

\* C26: a device step given an integer outside the device's alphabet raises,
\* and the device is afterwards exactly as before the call (state, reward,
\* tick counter, accumulators); a step that returns had an in-range action.
C26_OutOfRangeRaises ==
    /\ call.op = "step_error" =>
           /\ AgentStepRaises(call.before[call.failed], call.action[call.failed])
           /\ call.action[call.failed] \notin ActionSpace(call.before[call.failed].type)
           /\ agents[call.failed] = call.before[call.failed]
    /\ IsStep => \A i \in 1..n : ~AgentStepRaises(call.before[i], call.action[i])

\* An out-of-range action given to a device that has left Stopped and has
\* ticks behind it.
C26_Witness ==
    /\ call.op = "step_error"
    /\ call.before[call.failed].current_state # "Stopped"
    /\ call.before[call.failed].currentStep > 0
    /\ agents[call.failed] = call.before[call.failed]

\* C27: no device whose max_allowed_power is zero or negative is ever stepped
\* (its construction would have ended in a configuration error).
C27_PositiveWhenStepped ==
    IsStep => \A i \in 1..n : call.before[i].max_allowed_power > 0

\* C28: seed() called after at least one tick since the last reset() ends in
\* an error.
C28_SeedMidEpisodeRaises ==
    (call.op = "seed" /\ episode_ticks > 0) => call.error

\* C29: a coordinator step with an out-of-range entry in its action vector
\* leaves both generators, every device, the winners and current_system_power
\* as they were before the call.
C29_FailedTickNoEffect ==
    call.op = "step_error" =>
        /\ tou_generator = call.tou_before
        /\ load_profile = call.load_before
        /\ agents = call.before
        /\ current_winner = call.winner_before
        /\ current_system_power = call.power_before

\* The orders in which the n devices of a tick can be advanced.
Orders == {f \in [1..n -> 1..n] : \A i, j \in 1..n : i # j => f[i] # f[j]}

\* C30: advancing the devices of a tick in any order and storing each result
\* at the index of its device gives the observations, rewards, done flags,
\* powers and device states of the tick that was taken in registration order.
C30_OrderIndependent ==
    IsStep =>
        \E inorder \in {TickAll(call.before, call.action, 1)} :
            /\ Column(inorder, "agent", 1) = agents
            /\ Column(inorder, "ob", 1) = call.obs_n
            /\ Column(inorder, "state_reward", 1) = call.state_reward_n
            /\ Column(inorder, "done", 1) = call.done_n
            /\ Column(inorder, "power", 1) = call.current_power_n
            /\ SumSeq(Column(inorder, "power", 1)) = current_system_power
            /\ \A order \in Orders :
                   StepInOrder(call.before, call.action, order) = inorder

\* A tick of three devices in which every device changes state and draws or
\* delivers power.
C30_Witness ==
    /\ IsStep
    /\ n = 3
    /\ \A i \in 1..n : /\ agents[i].current_state # call.before[i].current_state
                       /\ call.current_power_n[i] # 0

\* The production states in which a self-loop keeps start_step.
RampStates == {"Execute", "Completed", "Held", "Suspended"}

\* C31: on every tick of a production device start_step becomes the tick
\* counter of that tick, unless the tick is a self-loop in Execute, Completed,
\* Held or Suspended, which keeps it.
C31_StartStepMarked ==
    IsStep =>
        \A i \in 1..n :
            HasProductionCount(agents[i]) =>
                IF /\ agents[i].current_state = call.before[i].current_state
                   /\ agents[i].current_state \in RampStates
                THEN agents[i].startStep = call.before[i].startStep
                ELSE agents[i].startStep = call.before[i].currentStep

\* C32: for every device, the power fraction in the last slot of the
\* observation a tick returns is the device's current_power as read by the
\* coordinator right after the device's step (the entry summed into
\* current_system_power), divided by max_allowed_power.
C32_ObsPowerIsTickPower ==
    IsStep => \A i \in 1..n : ObsPowerIs(i, call.current_power_n[i])

\* A reward no branch of any transition function assigns: it lies outside
\* the reward range [-1.0, 1.0] of the devices.
StaleReward == -(2 * Unit)

\* C33: the transition function of every device assigns the state reward on
\* every tick, whatever the state and the in-range action: run on the device
\* as it was before the tick, with a marker in current_reward, it never
\* leaves the marker in place (and the tick's device is the one it returns).
C33_EveryPairAssigns ==
    IsStep =>
        \A i \in 1..n :
            \E taken \in {_take_action([call.before[i] EXCEPT !.current_reward = StaleReward],
                                       ActionOf(i))} :
                /\ taken.current_state = agents[i].current_state
                /\ taken.current_reward # StaleReward

\* C34: a storage device configured with p_min <= 0 <= p_max and p_slope >= 0
\* has p_min <= charging_level <= p_max in every state, through ticks, failed
\* ticks and resets.
C34_ChargingLevelInRange ==
    \A i \in 1..n :
        (/\ agents[i].type = "EFlexEnergyStorageAgent"
         /\ agents[i].p_min <= 0 /\ 0 <= agents[i].p_max
         /\ agents[i].p_slope >= 0) =>
            /\ agents[i].p_min <= agents[i].charging_level
            /\ agents[i].charging_level <= agents[i].p_max

\* A tick taken in Charging at full level: level + p_slope is above p_max and
\* the level stays at p_max.
C34_Witness ==
    /\ IsStep
    /\ \E i \in 1..n :
        /\ agents[i].type = "EFlexEnergyStorageAgent"
        /\ agents[i].p_slope > 0
        /\ call.before[i].current_state = "Charging"
        /\ call.before[i].charging_level = agents[i].p_max
        /\ agents[i].charging_level = agents[i].p_max

\* C35: a production device is never in the state LoadChange, after
\* construction, after reset() and after any sequence of ticks.
C35_LoadChangeUnreachable ==
    \A i \in 1..n :
        HasProductionCount(agents[i]) => agents[i].current_state # "LoadChange"

\* The action ChangeLoad given to a production device in Idle: it stays in
\* Idle.
C35_Witness ==
    /\ IsStep
    /\ \E i \in 1..n :
        /\ HasProductionCount(agents[i])
        /\ call.before[i].current_state = "Idle"
        /\ ActionOf(i) = "ChangeLoad"
        /\ agents[i].current_state = "Idle"

\* The tick just taken, as the coordinator configured with load_conf takes it
\* from the same devices, price series, winners and action vector.
OtherTick(load_conf) ==
    CoordinatorStep(call.before, call.tou_before,
                    LoadProfileAfter(load_conf, call.load_before.current_step),
                    shared_reward, energy_cost_budget,
                    call.winner_before, call.action)

\* The results of a tick that are not the load-limit entry of the diagnostics.
Outcome(out) ==
    [agents               |-> out.agents,
     tou_generator        |-> out.tou_generator,
     current_winner       |-> out.current_winner,
     current_system_power |-> out.current_system_power,
     global_reward        |-> out.global_reward,
     obs_n                |-> out.call.obs_n,
     reward_n             |-> out.call.reward_n,
     done                 |-> out.call.done,
     done_n               |-> out.call.done_n,
     info                 |-> [out.call.info EXCEPT !.max_load_pofile = 0]]

\* C36: a coordinator that differs only in its load profile and is in the same
\* state otherwise returns, for the same action vector, the same
\* observations, rewards and done flag and is left with the same devices,
\* price series, winners and system power; only the load-limit entry of the
\* diagnostics follows the load profile.  (reset() reads no load profile, and
\* the load profile is advanced by its own step only, so two coordinators
\* equal apart from it stay so along any sequence of resets and ticks.)
C36_LoadProfileNoInfluence ==
    /\ IsStep =>
        \A load_conf \in OtherLoadConfs :
            \E out \in {OtherTick(load_conf)} :
                /\ Outcome(out)
                     = [agents               |-> agents,
                        tou_generator        |-> tou_generator,
                        current_winner       |-> current_winner,
                        current_system_power |-> current_system_power,
                        global_reward        |-> global_reward,
                        obs_n                |-> call.obs_n,
                        reward_n             |-> call.reward_n,
                        done                 |-> call.done,
                        done_n               |-> call.done_n,
                        info                 |-> [call.info EXCEPT !.max_load_pofile = 0]]
                /\ out.call.info.max_load_pofile = out.load_profile.current_max_load
    /\ IsStep => call.info.max_load_pofile = load_profile.current_max_load

\* A tick whose system power is above the load limit of another coordinator
\* and below this one's: the diagnostics differ, the outcomes do not.
C36_Witness ==
    /\ IsStep
    /\ current_system_power > 0
    /\ current_system_power * Unit < load_profile.current_max_load
    /\ \E load_conf \in OtherLoadConfs :
           \E out \in {OtherTick(load_conf)} :
               /\ current_system_power * Unit > out.load_profile.current_max_load
               /\ out.call.info.max_load_pofile # call.info.max_load_pofile
               /\ out.call.done = call.done

====
